---- MODULE Spec2Model ----
(***************************************************************************)
(* Model of dash_emulator/abr.py (DashABRController) and the collaborators *)
(* it reads: the bandwidth meter, the buffer manager and the catalog.      *)
(* and of dash_emulator/event_logger.py (EventLogger).                     *)
(*                                                                         *)
(* Specifications.                                                         *)
(*  - Spec: a controller of any strategy driven by calls of                *)
(*    update_selection while the estimate, the buffer level and the        *)
(*    catalog change between calls.                                        *)
(*  - LadderSpec: buffer-based sessions on one track whose ladder is any   *)
(*    short list of bitrates.                                              *)
(*  - LoggerSpec: an EventLogger receiving listener callbacks.             *)
(*                                                                         *)
(* Encodings.                                                              *)
(*  - A Python dict is a sequence of entries in insertion order.  The      *)
(*    catalog is a sequence of adaptation sets [id, content_type,          *)
(*    representations]; representations is a sequence of [id, bandwidth].  *)
(*  - A selection (Dict[int, int]) is a function from adaptation-set ids   *)
(*    to representation ids; the id None is NoneId.                        *)
(*  - An attribute that is None or an object is a sequence of length 0     *)
(*    (None) or 1 (the object).                                            *)
(*  - A call that raises ends with outcome the name of the exception.      *)
(*  - Python floats are exact rationals <<numerator, denominator>> in      *)
(*    lowest terms.  On the inputs enumerated here the comparisons of the  *)
(*    code give the same answers in IEEE doubles as in exact arithmetic.   *)
(*  - Buffer levels and thresholds are in tenths of a second, bitrates     *)
(*    and bandwidth in bits per second.                                    *)
(***************************************************************************)
EXTENDS Integers, Sequences, FiniteSets, TLC

\* ------------------------------------------------------------------ bounds
\* adaptation-set ids 0 .. NumTracks-1 may appear in a catalog
NumTracks == 3
\* bandwidth estimates are 0, 1e6, ..., MaxBandwidthIdx * 1e6
MaxBandwidthIdx == 4
\* the longest bitrate ladder of the single-track sessions
MaxSteps == 4
\* the number of listener callbacks an EventLogger receives
MaxCallbacks == 3

\* ---------------------------------------------------------------- rationals
RECURSIVE GCD(_, _)
GCD(a, b) == IF b = 0 THEN a ELSE GCD(b, a % b)

Rat(n, d) == LET g == GCD(n, d) IN IF g = 0 THEN <<n, d>> ELSE <<n \div g, d \div g>>
RatAdd(x, y) == Rat(x[1] * y[2] + y[1] * x[2], x[2] * y[2])
RatSub(x, y) == Rat(x[1] * y[2] - y[1] * x[2], x[2] * y[2])
RatDivInt(x, k) == Rat(x[1], x[2] * k)
RatLess(x, y) == x[1] * y[2] < y[1] * x[2]
RatLeq(x, y) == x[1] * y[2] <= y[1] * x[2]
RatOfInt(n) == <<n, 1>>

\* ------------------------------------------------------------ Python values
NoneId == -1
None == << >>
Some(x) == <<x>>
IsNone(o) == Len(o) = 0
Get(o) == o[1]
EmptyDict == [k \in {} |-> 0]
\* d[k] = v on a function-encoded dict
DictSet(d, k, v) == [x \in DOMAIN d \cup {k} |-> IF x = k THEN v ELSE d[x]]
\* d.get(k)
DictGet(d, k) == IF k \in DOMAIN d THEN d[k] ELSE NoneId

Range(s) == {s[i] : i \in 1..Len(s)}
Reverse(s) == [i \in 1..Len(s) |-> s[Len(s) + 1 - i]]

\* --------------------------------------------------- models: representations
RepKeys(representations) == {representations[i].id : i \in 1..Len(representations)}
\* representations[key], defined when key is in RepKeys
RepAt(representations, key) ==
    representations[CHOOSE i \in 1..Len(representations) : representations[i].id = key]
SetIds(adaptation_sets) == {adaptation_sets[i].id : i \in 1..Len(adaptation_sets)}
SetAt(adaptation_sets, key) ==
    adaptation_sets[CHOOSE i \in 1..Len(adaptation_sets) : adaptation_sets[i].id = key]

\* sorted(values, key=bandwidth, reverse=True): stable, equal keys keep dict order
RECURSIVE InsertDesc(_, _)
InsertDesc(sorted, r) ==
    IF sorted = << >> THEN <<r>>
    ELSE IF Head(sorted).bandwidth >= r.bandwidth
         THEN <<Head(sorted)>> \o InsertDesc(Tail(sorted), r)
         ELSE <<r>> \o sorted
RECURSIVE SortedDesc(_)
SortedDesc(reps) ==
    IF reps = << >> THEN << >>
    ELSE InsertDesc(SortedDesc(SubSeq(reps, 1, Len(reps) - 1)), reps[Len(reps)])

\* list.sort() of a list of numbers
RECURSIVE InsertAsc(_, _)
InsertAsc(sorted, b) ==
    IF sorted = << >> THEN <<b>>
    ELSE IF Head(sorted) <= b
         THEN <<Head(sorted)>> \o InsertAsc(Tail(sorted), b)
         ELSE <<b>> \o sorted
RECURSIVE SortedAsc(_)
SortedAsc(bs) ==
    IF bs = << >> THEN << >>
    ELSE InsertAsc(SortedAsc(SubSeq(bs, 1, Len(bs) - 1)), bs[Len(bs)])

\* ------------------------------------------------------------------- inputs
VideoBitrates == <<391570, 641379, 988603, 1489543, 2284798, 3487003, 5253818>>
AudioBitrates == <<100000, 200000, 200000>>

Representation(id, bandwidth) == [id |-> id, bandwidth |-> bandwidth]
\* representation id k of a video track has bitrate VideoBitrates[k+1]
VideoLadder(ids) == [i \in 1..Len(ids) |-> Representation(ids[i], VideoBitrates[ids[i] + 1])]
AudioLadder(ids) == [i \in 1..Len(ids) |-> Representation(ids[i], AudioBitrates[ids[i] + 1])]

AdaptationSet(id, content_type, representations) ==
    [id |-> id, content_type |-> content_type, representations |-> representations]

\* what the manifest may offer under each adaptation-set id
TrackOptions(id) ==
    CASE id % 4 = 0 -> {AdaptationSet(id, "video", VideoLadder(<<0, 1, 2, 3, 4, 5, 6>>)),
                        AdaptationSet(id, "video", VideoLadder(<<2, 0, 1>>))}
      [] id % 4 = 1 -> {AdaptationSet(id, "audio", AudioLadder(<<0, 1, 2>>)),
                        AdaptationSet(id, "other", AudioLadder(<<0>>)),
                        AdaptationSet(id, "audio", << >>)}
      [] id % 4 = 2 -> {AdaptationSet(id, "video", VideoLadder(<<2, 0, 1>>))}
      [] OTHER -> {AdaptationSet(id, "audio", AudioLadder(<<1, 0>>))}

\* catalogs: every non-empty set of adaptation-set ids, in increasing id order
RECURSIVE CatalogsUpTo(_)
CatalogsUpTo(n) ==
    IF n = 0 THEN {<< >>}
    ELSE LET rest == CatalogsUpTo(n - 1) IN
         rest \cup {Append(c, a) : c \in rest, a \in TrackOptions(n - 1)}
Catalogs == CatalogsUpTo(NumTracks) \ {<< >>}

\* single-track catalogs over every bitrate list of up to MaxSteps entries
\* (unsorted and repeated bitrates included), and the seven-step video ladder
LadderBitrates == {100000, 200000, 400000}
RECURSIVE LaddersUpTo(_)
LaddersUpTo(n) ==
    IF n = 0 THEN {<< >>}
    ELSE LET rest == LaddersUpTo(n - 1) IN
         rest \cup {Append(l, b) : l \in rest, b \in LadderBitrates}
LadderOf(bitrates) == [i \in 1..Len(bitrates) |-> Representation(i - 1, bitrates[i])]
LadderCatalogs ==
    {<<AdaptationSet(0, "video", LadderOf(l))>> : l \in LaddersUpTo(MaxSteps) \ {<< >>}}
        \cup {<<AdaptationSet(0, "video", VideoLadder(<<0, 1, 2, 3, 4, 5, 6>>))>>}

Bandwidths == {1000000 * i : i \in 0..MaxBandwidthIdx}
BufferLevels == {0, 15, 30, 50, 150, 200, 270, 285}
Algorithms == {"buffer-based", "bandwidth-based", "hybrid", "unknown"}
\* (panic_buffer, safe_buffer, max_buffer_duration)
Configs == {<<50, 200, 300>>}
\* the player states a listener is told about, the positions (in seconds),
\* buffer levels and segment indices it is called with
PlayerStates == {"BUFFERING", "READY", "END"}
Positions == {0, 7}

\* -------------------------------------------------------------------- state
VARIABLES
    abr_algorithm,      \* self.abr_algorithm
    panic_buffer,       \* self.panic_buffer
    safe_buffer,        \* self.safe_buffer
    buffer_size,        \* self.buffer_size
    rate_map,           \* self.rate_map: None or Some(sequence of [marker, bitrate])
    last_selections,    \* self._last_selections: None or Some(selection)
    min_bitrate_representations, \* self._min_bitrate_representations
    adaptation_sets,    \* the catalog the scheduler passes to update_selection
    bandwidth,          \* self.bandwidth_meter.bandwidth
    buffer_level,       \* self.buffer_manager.buffer_level
    \* the latest update_selection call, until one of its inputs changes
    outcome,            \* how the call ended
    selection,          \* the mapping it returned
    ideal_selection,    \* its local ideal_selection
    bw_share,           \* the bw it passed to choose_ideal_selection_bandwidth_based, per track
    next_bitrate,       \* next_bitrate of choose_ideal_selection_buffer_based, per track
    prior_selections,   \* self._last_selections as hybrid_based read it at line 126
    \* the call before the latest one, when no input changed between the two
    previous_call,      \* None or Some(<<outcome, selection>>)
    \* the EventLogger of the session
    states,             \* self.states
    callbacks           \* the callbacks received so far, with their arguments

vars == <<abr_algorithm, panic_buffer, safe_buffer, buffer_size, rate_map,
          last_selections, min_bitrate_representations, adaptation_sets,
          bandwidth, buffer_level, outcome, selection, ideal_selection,
          bw_share, next_bitrate, prior_selections, previous_call, states, callbacks>>

config == <<abr_algorithm, panic_buffer, safe_buffer, buffer_size>>
inputs == <<adaptation_sets, bandwidth, buffer_level>>
controller == <<rate_map, last_selections, min_bitrate_representations>>
logger == <<states, callbacks>>
call == <<outcome, selection, ideal_selection, bw_share, next_bitrate, prior_selections,
          previous_call>>

RESERVOIR == <<1, 10>>
UPPER_RESERVOIR == <<9, 10>>

\* DashABRController.__init__
Init ==
    /\ abr_algorithm \in Algorithms
    /\ \E c \in Configs :
         /\ panic_buffer = c[1]
         /\ safe_buffer = c[2]
         /\ buffer_size = c[3]
    /\ rate_map = None
    /\ min_bitrate_representations = EmptyDict
    /\ last_selections = None
    /\ adaptation_sets \in Catalogs
    /\ bandwidth \in Bandwidths
    /\ buffer_level \in BufferLevels
    /\ outcome = "idle"
    /\ selection = EmptyDict
    /\ ideal_selection = EmptyDict
    /\ bw_share = EmptyDict
    /\ next_bitrate = EmptyDict
    /\ prior_selections = None
    /\ previous_call = None
    /\ states = << >>
    /\ callbacks = << >>

\* what the scheduler got from the latest call, if it made one on these inputs
Outcome == IF outcome = "idle" THEN None ELSE Some(<<outcome, selection>>)

\* ------------------------------------------------- empty representation dicts
\* the position of the first adaptation set without a representation, else 0
FirstEmpty(sets) ==
    LET empties == {i \in 1..Len(sets) : Len(sets[i].representations) = 0}
    IN IF empties = {} THEN 0 ELSE CHOOSE i \in empties : \A j \in empties : i <= j

\* the adaptation sets choose_ideal_selection_bandwidth_based returns for: on
\* an empty dict the loop of line 224 leaves representation = None and line
\* 228 raises AttributeError
Evaluated(sets) ==
    IF FirstEmpty(sets) = 0 THEN sets ELSE SubSeq(sets, 1, FirstEmpty(sets) - 1)

\* ------------------------------------------------- bandwidth partitioning
\* lines 84-90 / 160-166: every adaptation set that is not "video" counts as audio
NumVideos(sets) == Cardinality({i \in 1..Len(sets) : sets[i].content_type = "video"})
NumAudios(sets) == Cardinality({i \in 1..Len(sets) : sets[i].content_type # "video"})

\* BwFor with the video share divided by the number of all adaptation sets
BwFor_AllTracksDivisor(sets, adaptation_set, available_bandwidth) ==
    LET num_videos == NumVideos(sets)
        num_audios == NumAudios(sets)
    IN IF num_videos = 0 \/ num_audios = 0
       THEN Rat(available_bandwidth, num_videos + num_audios)
       ELSE IF adaptation_set.content_type = "video"
            THEN Rat(available_bandwidth * 8, 10 * (num_videos + num_audios))
            ELSE Rat(available_bandwidth * 2, 10 * num_audios)

\* the bw handed to choose_ideal_selection_bandwidth_based for one adaptation
\* set (lines 93-119 / 169-196)
BwFor(sets, adaptation_set, available_bandwidth) ==
    LET num_videos == NumVideos(sets)
        num_audios == NumAudios(sets)
    IN IF num_videos = 0 \/ num_audios = 0
       THEN Rat(available_bandwidth, num_videos + num_audios)
       ELSE IF adaptation_set.content_type = "video"
            THEN Rat(available_bandwidth * 8, 10 * num_videos)
            ELSE Rat(available_bandwidth * 2, 10 * num_audios)

\* choose_ideal_selection_bandwidth_based with "<=" for "<" at line 225
choose_ideal_selection_bandwidth_based_Leq(adaptation_set, bw) ==
    LET representations == SortedDesc(adaptation_set.representations)
        fits == {i \in 1..Len(representations) :
                    RatLeq(RatOfInt(representations[i].bandwidth), bw)}
    IN IF fits # {}
       THEN representations[CHOOSE i \in fits : \A j \in fits : i <= j].id
       ELSE representations[Len(representations)].id

\* choose_ideal_selection_bandwidth_based on a non-empty representation dict
choose_ideal_selection_bandwidth_based(adaptation_set, bw) ==
    LET representations == SortedDesc(adaptation_set.representations)
        fits == {i \in 1..Len(representations) :
                    RatLess(RatOfInt(representations[i].bandwidth), bw)}
    IN IF fits # {}
       THEN representations[CHOOSE i \in fits : \A j \in fits : i <= j].id
       ELSE representations[Len(representations)].id

\* the ideal_selection dict built by lines 95-119 / 171-196, as far as it gets
IdealSelection(sets, available_bandwidth) ==
    [id \in SetIds(Evaluated(sets)) |->
        choose_ideal_selection_bandwidth_based(
            SetAt(sets, id), BwFor(sets, SetAt(sets, id), available_bandwidth))]

Shares(sets, available_bandwidth) ==
    [id \in SetIds(Evaluated(sets)) |-> BwFor(sets, SetAt(sets, id), available_bandwidth)]

\* ------------------------------------------------------------------ hybrid
\* int(self.bandwidth_meter.bandwidth * 0.7)
HybridBudget(bw) == (bw * 7) \div 10

\* FinalReprId with the comparison of line 134 reversed
FinalReprId_PanicKeepsHigher(last_repr, ideal_repr, bl) ==
    IF bl < panic_buffer
    THEN IF last_repr.bandwidth > ideal_repr.bandwidth THEN last_repr.id ELSE ideal_repr.id
    ELSE IF bl > safe_buffer
         THEN IF last_repr.bandwidth > ideal_repr.bandwidth THEN last_repr.id ELSE ideal_repr.id
         ELSE ideal_repr.id

\* FinalReprId with the comparison of line 140 reversed
FinalReprId_SafeKeepsLower(last_repr, ideal_repr, bl) ==
    IF bl < panic_buffer
    THEN IF last_repr.bandwidth < ideal_repr.bandwidth THEN last_repr.id ELSE ideal_repr.id
    ELSE IF bl > safe_buffer
         THEN IF last_repr.bandwidth < ideal_repr.bandwidth THEN last_repr.id ELSE ideal_repr.id
         ELSE ideal_repr.id

\* FinalReprId with "<=" for "<" at line 131
FinalReprId_PanicInclusive(last_repr, ideal_repr, bl) ==
    IF bl <= panic_buffer
    THEN IF last_repr.bandwidth < ideal_repr.bandwidth THEN last_repr.id ELSE ideal_repr.id
    ELSE IF bl > safe_buffer
         THEN IF last_repr.bandwidth > ideal_repr.bandwidth THEN last_repr.id ELSE ideal_repr.id
         ELSE ideal_repr.id

\* lines 131-144: the representation id kept for one adaptation set
FinalReprId(last_repr, ideal_repr, bl) ==
    IF bl < panic_buffer
    THEN IF last_repr.bandwidth < ideal_repr.bandwidth THEN last_repr.id ELSE ideal_repr.id
    ELSE IF bl > safe_buffer
         THEN IF last_repr.bandwidth > ideal_repr.bandwidth THEN last_repr.id ELSE ideal_repr.id
         ELSE ideal_repr.id

\* line 129 raises KeyError when the previous id of some adaptation set (None
\* for a set the previous selection does not know) is not a key of its
\* representations
LastReprMissing(sets, last) ==
    \E i \in 1..Len(sets) :
        DictGet(last, sets[i].id) \notin RepKeys(sets[i].representations)

\* the final_selections dict built by lines 123-147 when there is a memory
FinalSelections(sets, last, ideal, bl) ==
    [id \in SetIds(sets) |->
        LET representations == SetAt(sets, id).representations
        IN FinalReprId(RepAt(representations, last[id]), RepAt(representations, ideal[id]), bl)]

\* hybrid_based with line 149 out of reach of the first call of a session
hybrid_based_FirstCallNotPersisted(sets, bw, bl) ==
    LET available_bandwidth == HybridBudget(bw)
        ideal == IdealSelection(sets, available_bandwidth)
    IN /\ abr_algorithm = "hybrid"
       /\ ideal_selection' = ideal
       /\ bw_share' = Shares(sets, available_bandwidth)
       /\ next_bitrate' = EmptyDict
       /\ IF FirstEmpty(sets) # 0
          THEN /\ outcome' = "AttributeError"
               /\ selection' = EmptyDict
               /\ prior_selections' = None
               /\ UNCHANGED last_selections
          ELSE /\ prior_selections' = last_selections
               /\ IF IsNone(last_selections)
                  THEN /\ outcome' = "selection"
                       /\ selection' = ideal
                       /\ UNCHANGED last_selections
                  ELSE IF LastReprMissing(sets, Get(last_selections))
                       THEN /\ outcome' = "KeyError"
                            /\ selection' = EmptyDict
                            /\ UNCHANGED last_selections
                       ELSE LET final_selections == FinalSelections(sets, Get(last_selections), ideal, bl)
                            IN /\ outcome' = "selection"
                               /\ selection' = final_selections
                               /\ last_selections' = Some(final_selections)
       /\ previous_call' = Outcome
       /\ UNCHANGED <<config, logger, inputs, rate_map, min_bitrate_representations>>

hybrid_based(sets, bw, bl) ==
    LET available_bandwidth == HybridBudget(bw)
        ideal == IdealSelection(sets, available_bandwidth)
    IN /\ abr_algorithm = "hybrid"
       /\ ideal_selection' = ideal
       /\ bw_share' = Shares(sets, available_bandwidth)
       /\ next_bitrate' = EmptyDict
       /\ IF FirstEmpty(sets) # 0
          THEN /\ outcome' = "AttributeError"
               /\ selection' = EmptyDict
               /\ prior_selections' = None
               /\ UNCHANGED last_selections
          ELSE /\ prior_selections' = last_selections
               /\ IF IsNone(last_selections)
                  THEN /\ outcome' = "selection"
                       /\ selection' = ideal
                       /\ last_selections' = Some(ideal)
                  ELSE IF LastReprMissing(sets, Get(last_selections))
                       THEN /\ outcome' = "KeyError"
                            /\ selection' = EmptyDict
                            /\ UNCHANGED last_selections
                       ELSE LET final_selections == FinalSelections(sets, Get(last_selections), ideal, bl)
                            IN /\ outcome' = "selection"
                               /\ selection' = final_selections
                               /\ last_selections' = Some(final_selections)
       /\ previous_call' = Outcome
       /\ UNCHANGED <<config, logger, inputs, rate_map, min_bitrate_representations>>

\* --------------------------------------------------------- bandwidth-based
\* int(self.bandwidth_meter.bandwidth)
BandwidthBudget(bw) == bw

\* line 198: ideal_selection = {0: 3}
Override(ideal) == (0 :> 3)

\* bandwidth_based with the bookkeeping of line 149 of hybrid_based copied in
bandwidth_based_PersistsSelection(sets, bw, bl) ==
    LET available_bandwidth == BandwidthBudget(bw)
        ideal == IdealSelection(sets, available_bandwidth)
    IN /\ abr_algorithm = "bandwidth-based"
       /\ ideal_selection' = ideal
       /\ bw_share' = Shares(sets, available_bandwidth)
       /\ next_bitrate' = EmptyDict
       /\ prior_selections' = None
       /\ IF FirstEmpty(sets) # 0
          THEN outcome' = "AttributeError" /\ selection' = EmptyDict
          ELSE outcome' = "selection" /\ selection' = Override(ideal)
       /\ previous_call' = Outcome
       /\ last_selections' = IF FirstEmpty(sets) # 0 THEN last_selections ELSE Some(ideal)
       /\ UNCHANGED <<config, logger, inputs, rate_map, min_bitrate_representations>>

bandwidth_based(sets, bw, bl) ==
    LET available_bandwidth == BandwidthBudget(bw)
        ideal == IdealSelection(sets, available_bandwidth)
    IN /\ abr_algorithm = "bandwidth-based"
       /\ ideal_selection' = ideal
       /\ bw_share' = Shares(sets, available_bandwidth)
       /\ next_bitrate' = EmptyDict
       /\ prior_selections' = None
       /\ IF FirstEmpty(sets) # 0
          THEN outcome' = "AttributeError" /\ selection' = EmptyDict
          ELSE outcome' = "selection" /\ selection' = Override(ideal)
       /\ previous_call' = Outcome
       /\ UNCHANGED <<config, logger, inputs, controller>>

\* ------------------------------------------------------------ buffer-based
\* rate_map[key] = value on an OrderedDict: an existing key keeps its place
OrderedDictSet(d, key, value) ==
    IF \E i \in 1..Len(d) : d[i].marker = key
    THEN [i \in 1..Len(d) |->
            IF d[i].marker = key THEN [marker |-> key, bitrate |-> value] ELSE d[i]]
    ELSE Append(d, [marker |-> key, bitrate |-> value])

\* the loop of lines 253-255
RECURSIVE FillIntermediate(_, _, _, _)
FillIntermediate(d, levels, current_marker, marker_length) ==
    IF levels = << >> THEN d
    ELSE FillIntermediate(OrderedDictSet(d, current_marker, Head(levels)), Tail(levels),
                          RatAdd(current_marker, marker_length), marker_length)

\* get_rate_map with one interval too many between the reservoirs
get_rate_map_ExtraInterval(bitrates) ==
    LET first == OrderedDictSet(<< >>, RESERVOIR, bitrates[1])
        intermediate_levels == SubSeq(bitrates, 2, Len(bitrates) - 1)
        marker_length == RatDivInt(RatSub(UPPER_RESERVOIR, RESERVOIR),
                                   Len(intermediate_levels) + 2)
        filled == FillIntermediate(first, intermediate_levels,
                                   RatAdd(RESERVOIR, marker_length), marker_length)
    IN OrderedDictSet(filled, UPPER_RESERVOIR, bitrates[Len(bitrates)])

\* get_rate_map on a non-empty sorted list of bitrates
get_rate_map(bitrates) ==
    LET first == OrderedDictSet(<< >>, RESERVOIR, bitrates[1])
        intermediate_levels == SubSeq(bitrates, 2, Len(bitrates) - 1)
        marker_length == RatDivInt(RatSub(UPPER_RESERVOIR, RESERVOIR),
                                   Len(intermediate_levels) + 1)
        filled == FillIntermediate(first, intermediate_levels,
                                   RatAdd(RESERVOIR, marker_length), marker_length)
    IN OrderedDictSet(filled, UPPER_RESERVOIR, bitrates[Len(bitrates)])

\* lines 277-281
SortedBitrates(adaptation_set) ==
    SortedAsc([i \in 1..Len(adaptation_set.representations) |->
                  adaptation_set.representations[i].bandwidth])

\* WalkMarkers with "<=" for "<" at line 300
RECURSIVE WalkMarkers_BreakOnEqual(_, _, _)
WalkMarkers_BreakOnEqual(reversed, buffer_percentage, next) ==
    IF reversed = << >> THEN next
    ELSE IF RatLeq(Head(reversed).marker, buffer_percentage) THEN next
         ELSE WalkMarkers_BreakOnEqual(Tail(reversed), buffer_percentage, Head(reversed).bitrate)

\* the loop of lines 299-302 over reversed(rate_map.keys())
RECURSIVE WalkMarkers(_, _, _)
WalkMarkers(reversed, buffer_percentage, next) ==
    IF reversed = << >> THEN next
    ELSE IF RatLess(Head(reversed).marker, buffer_percentage) THEN next
         ELSE WalkMarkers(Tail(reversed), buffer_percentage, Head(reversed).bitrate)

\* NextBitrate with "<" for "<=" at line 294
NextBitrate_StrictReservoir(adaptation_set, map, bl) ==
    LET bitrates == SortedBitrates(adaptation_set)
        buffer_percentage == Rat(bl, buffer_size)
    IN IF RatLess(buffer_percentage, RESERVOIR) THEN bitrates[1]
       ELSE IF RatLeq(UPPER_RESERVOIR, buffer_percentage) THEN bitrates[Len(bitrates)]
            ELSE WalkMarkers(Reverse(map), buffer_percentage, NoneId)

\* NextBitrate reading the map of the track's own ladder while none is cached
NextBitrate_OwnMapBeforeCaching(adaptation_set, map, bl) ==
    LET bitrates == SortedBitrates(adaptation_set)
        buffer_percentage == Rat(bl, buffer_size)
        own == IF IsNone(rate_map) /\ Len(bitrates) > 0 THEN get_rate_map(bitrates) ELSE map
    IN IF RatLeq(buffer_percentage, RESERVOIR) THEN bitrates[1]
       ELSE IF RatLeq(UPPER_RESERVOIR, buffer_percentage) THEN bitrates[Len(bitrates)]
            ELSE WalkMarkers(Reverse(own), buffer_percentage, NoneId)

\* lines 294-302: next_bitrate for one adaptation set, given the rate map in use
NextBitrate(adaptation_set, map, bl) ==
    LET bitrates == SortedBitrates(adaptation_set)
        buffer_percentage == Rat(bl, buffer_size)
    IN IF RatLeq(buffer_percentage, RESERVOIR) THEN bitrates[1]
       ELSE IF RatLeq(UPPER_RESERVOIR, buffer_percentage) THEN bitrates[Len(bitrates)]
            ELSE WalkMarkers(Reverse(map), buffer_percentage, NoneId)

\* lines 304-309: the id of the last representation with that bitrate, else None
RepresentationIdOf(adaptation_set, bitrate) ==
    LET representations == adaptation_set.representations
        hits == {i \in 1..Len(representations) : representations[i].bandwidth = bitrate}
    IN IF hits = {} THEN NoneId
       ELSE representations[CHOOSE i \in hits : \A j \in hits : j <= i].id

\* RateMapAfter with the test of line 291 dropped: every call rebuilds the map
RateMapAfter_RebuiltEveryCall(sets) ==
    IF Len(sets[1].representations) = 0 THEN rate_map
    ELSE Some(get_rate_map(SortedBitrates(sets[1])))

\* lines 291-292 as seen by the whole call: the first adaptation set evaluated
\* builds the map when there is none
RateMapAfter(sets) ==
    IF IsNone(rate_map) THEN Some(get_rate_map(SortedBitrates(sets[1]))) ELSE rate_map

choose_ideal_selection_buffer_based(adaptation_set, map, bl) ==
    RepresentationIdOf(adaptation_set, NextBitrate(adaptation_set, map, bl))

\* bitrates[0] of an empty list raises IndexError: in get_rate_map (line 247)
\* when the first adaptation set evaluated finds no rate map, and at lines 295
\* and 297 when the buffer fraction is clamped
BufferBasedRaises(sets, i, bl) ==
    /\ Len(sets[i].representations) = 0
    /\ \/ i = 1 /\ IsNone(rate_map)
       \/ RatLeq(Rat(bl, buffer_size), RESERVOIR)
       \/ RatLeq(UPPER_RESERVOIR, Rat(bl, buffer_size))

\* the position of the adaptation set at which buffer_based raises, else 0
FirstRaise(sets, bl) ==
    LET raising == {i \in 1..Len(sets) : BufferBasedRaises(sets, i, bl)}
    IN IF raising = {} THEN 0 ELSE CHOOSE i \in raising : \A j \in raising : i <= j

buffer_based(sets, bw, bl) ==
    LET stop == FirstRaise(sets, bl)
        done == IF stop = 0 THEN sets ELSE SubSeq(sets, 1, stop - 1)
        map == IF stop = 1 THEN rate_map ELSE RateMapAfter(sets)
    IN /\ abr_algorithm = "buffer-based"
       /\ rate_map' = map
       /\ next_bitrate' = [id \in SetIds(done) |-> NextBitrate(SetAt(sets, id), Get(map), bl)]
       /\ IF stop = 0
          THEN /\ outcome' = "selection"
               /\ selection' = [id \in SetIds(sets) |->
                     choose_ideal_selection_buffer_based(SetAt(sets, id), Get(map), bl)]
          ELSE /\ outcome' = "IndexError"
               /\ selection' = EmptyDict
       /\ ideal_selection' = EmptyDict
       /\ bw_share' = EmptyDict
       /\ prior_selections' = None
       /\ previous_call' = Outcome
       /\ UNCHANGED <<config, logger, inputs, last_selections, min_bitrate_representations>>

\* ------------------------------------------------------------------ dispatch
\* lines 72-77 with no branch taken: the call returns None
no_strategy(sets, bw, bl) ==
    /\ abr_algorithm \notin {"buffer-based", "bandwidth-based", "hybrid"}
    /\ outcome' = "None"
    /\ selection' = EmptyDict
    /\ ideal_selection' = EmptyDict
    /\ bw_share' = EmptyDict
    /\ next_bitrate' = EmptyDict
    /\ prior_selections' = None
    /\ previous_call' = Outcome
    /\ UNCHANGED <<config, logger, inputs, controller>>

\* update_selection(adaptation_sets), reading the meter and the buffer manager
update_selection ==
    \/ buffer_based(adaptation_sets, bandwidth, buffer_level)
    \/ bandwidth_based(adaptation_sets, bandwidth, buffer_level)
    \/ hybrid_based(adaptation_sets, bandwidth, buffer_level)
    \/ no_strategy(adaptation_sets, bandwidth, buffer_level)

\* ------------------------------------------------------------- environment
\* the latest call's record is dropped when an input of the next call changes
Forget ==
    /\ outcome' = "idle"
    /\ selection' = EmptyDict
    /\ ideal_selection' = EmptyDict
    /\ bw_share' = EmptyDict
    /\ next_bitrate' = EmptyDict
    /\ prior_selections' = None
    /\ previous_call' = None

\* the bandwidth meter publishes a new estimate
BandwidthUpdate ==
    /\ \E bw \in Bandwidths \ {bandwidth} : bandwidth' = bw
    /\ Forget
    /\ UNCHANGED <<config, logger, controller, adaptation_sets, buffer_level>>

\* the buffer manager reports a new buffer level
BufferUpdate ==
    /\ \E bl \in BufferLevels \ {buffer_level} : buffer_level' = bl
    /\ Forget
    /\ UNCHANGED <<config, logger, controller, adaptation_sets, bandwidth>>

\* a catalog with the adaptation set of one id replaced, added or removed
WithTrack(sets, a) ==
    SelectSeq(sets, LAMBDA s : s.id < a.id) \o <<a>> \o SelectSeq(sets, LAMBDA s : s.id > a.id)
WithoutTrack(sets, id) == SelectSeq(sets, LAMBDA s : s.id # id)
Refreshed(sets) ==
    UNION {{WithTrack(sets, a) : a \in TrackOptions(id)} \cup {WithoutTrack(sets, id)} :
              id \in 0..(NumTracks - 1)}

\* the manifest is refreshed and the scheduler holds a new catalog: one
\* adaptation set was added, removed or replaced
CatalogUpdate ==
    /\ \E sets \in Refreshed(adaptation_sets) \ {adaptation_sets, << >>} :
          adaptation_sets' = sets
    /\ Forget
    /\ UNCHANGED <<config, logger, controller, bandwidth, buffer_level>>

Next ==
    \/ update_selection
    \/ BandwidthUpdate
    \/ BufferUpdate
    \/ CatalogUpdate

Spec == Init /\ [][Next]_vars

\* ---------------------------------------------- single-track buffer-based
\* a buffer-based session on one track whose manifest never changes
LadderInit ==
    /\ abr_algorithm = "buffer-based"
    /\ \E c \in Configs :
         /\ panic_buffer = c[1]
         /\ safe_buffer = c[2]
         /\ buffer_size = c[3]
    /\ rate_map = None
    /\ min_bitrate_representations = EmptyDict
    /\ last_selections = None
    /\ adaptation_sets \in LadderCatalogs
    /\ bandwidth = 0
    /\ buffer_level \in BufferLevels
    /\ outcome = "idle"
    /\ selection = EmptyDict
    /\ ideal_selection = EmptyDict
    /\ bw_share = EmptyDict
    /\ next_bitrate = EmptyDict
    /\ prior_selections = None
    /\ previous_call = None
    /\ states = << >>
    /\ callbacks = << >>

LadderNext ==
    \/ buffer_based(adaptation_sets, bandwidth, buffer_level)
    \/ BufferUpdate

LadderSpec == LadderInit /\ [][LadderNext]_vars

\* -------------------------------------------------------------- EventLogger
\* on_buffer_level_change: writes a debug line
on_buffer_level_change(level) ==
    /\ Len(callbacks) < MaxCallbacks
    /\ callbacks' = Append(callbacks, <<"on_buffer_level_change", level>>)
    /\ UNCHANGED <<states, config, inputs, controller, call>>

\* on_state_change with the test of line 20 on the state left
on_state_change_TestsOldState(position, old_state, new_state) ==
    /\ Len(callbacks) < MaxCallbacks
    /\ callbacks' = Append(callbacks, <<"on_state_change", position, old_state, new_state>>)
    /\ states' = IF old_state = "BUFFERING" THEN Append(states, position) ELSE states
    /\ UNCHANGED <<config, inputs, controller, call>>

\* on_state_change: a switch to BUFFERING records the position
on_state_change(position, old_state, new_state) ==
    /\ Len(callbacks) < MaxCallbacks
    /\ callbacks' = Append(callbacks, <<"on_state_change", position, old_state, new_state>>)
    /\ states' = IF new_state = "BUFFERING" THEN Append(states, position) ELSE states
    /\ UNCHANGED <<config, inputs, controller, call>>

\* on_segment_download_start: writes an info line
on_segment_download_start(index) ==
    /\ Len(callbacks) < MaxCallbacks
    /\ callbacks' = Append(callbacks, <<"on_segment_download_start", index>>)
    /\ UNCHANGED <<states, config, inputs, controller, call>>

\* on_segment_download_complete: writes an info line
on_segment_download_complete(index) ==
    /\ Len(callbacks) < MaxCallbacks
    /\ callbacks' = Append(callbacks, <<"on_segment_download_complete", index>>)
    /\ UNCHANGED <<states, config, inputs, controller, call>>

get_states == states

\* an EventLogger listening to the player and the scheduler of one session
LoggerInit ==
    /\ Init
    /\ abr_algorithm = "hybrid"
    /\ adaptation_sets = <<AdaptationSet(0, "video", VideoLadder(<<0, 1, 2, 3, 4, 5, 6>>))>>
    /\ bandwidth = 0
    /\ buffer_level = 0

LoggerNext ==
    \/ on_buffer_level_change(buffer_level)
    \/ \E position \in Positions, old_state \in PlayerStates, new_state \in PlayerStates :
          on_state_change(position, old_state, new_state)
    \/ on_segment_download_start(Len(callbacks))
    \/ on_segment_download_complete(Len(callbacks))

LoggerSpec == LoggerInit /\ [][LoggerNext]_vars

\* =================================================================== claims
Strategies == {"buffer-based", "bandwidth-based", "hybrid"}
Called == outcome # "idle"
Returned == outcome = "selection"
RepsOf(id) == SetAt(adaptation_sets, id).representations
BitrateOf(id, representation_id) == RepAt(RepsOf(id), representation_id).bandwidth
BitratesOf(id) == {RepsOf(id)[i].bandwidth : i \in 1..Len(RepsOf(id))}
BufferPercentage == <<buffer_level, buffer_size>>
\* the budget the latest call partitioned
Budget == IF abr_algorithm = "hybrid" THEN (bandwidth * 7) \div 10 ELSE bandwidth
Partitioned == Called /\ abr_algorithm \in {"bandwidth-based", "hybrid"}
VideoIds == {id \in SetIds(adaptation_sets) : SetAt(adaptation_sets, id).content_type = "video"}
AudioIds == {id \in SetIds(adaptation_sets) : SetAt(adaptation_sets, id).content_type = "audio"}
\* every adaptation set of the catalog has a representation
WellFormed == \A i \in 1..Len(adaptation_sets) : Len(adaptation_sets[i].representations) > 0
HybridWithPrior ==
    abr_algorithm = "hybrid" /\ Returned /\ ~IsNone(prior_selections)

\* C1: for each of the three strategies, every update_selection call on a
\* catalog whose adaptation sets all have a representation returns a mapping
\* whose keys are exactly the catalog's adaptation-set ids and whose values
\* are non-null ids of representations of the respective adaptation set.
C1_SelectionCoversCatalog ==
    (Called /\ abr_algorithm \in Strategies /\ WellFormed) =>
        /\ Returned
        /\ DOMAIN selection = SetIds(adaptation_sets)
        /\ \A id \in SetIds(adaptation_sets) :
              /\ selection[id] # NoneId
              /\ selection[id] \in RepKeys(RepsOf(id))

\* C2: a hybrid call with a prior selection that reads buffer_level <
\* panic_buffer returns, for every track, whichever of {previous, ideal} has
\* the lower bitrate: never more than the previous call's bitrate, and the
\* previous representation itself when the ideal bitrate is higher.
C2_NoClimbWhilePanicking ==
    (HybridWithPrior /\ buffer_level < panic_buffer) =>
        \A id \in SetIds(adaptation_sets) :
            LET prev == Get(prior_selections)[id]
                ideal == ideal_selection[id]
                chosen == selection[id]
            IN /\ chosen \in {prev, ideal}
               /\ BitrateOf(id, chosen) <= BitrateOf(id, prev)
               /\ BitrateOf(id, chosen) <= BitrateOf(id, ideal)
               /\ BitrateOf(id, ideal) > BitrateOf(id, prev) => chosen = prev

\* the scenario of the spec: occupancy 3s under panic_buffer 5s, previous
\* bitrate 988603, ideal bitrate 2284798, result held at 988603
C2_Witness ==
    /\ HybridWithPrior
    /\ buffer_level = 30
    /\ buffer_level < panic_buffer
    /\ 0 \in SetIds(adaptation_sets)
    /\ BitrateOf(0, Get(prior_selections)[0]) = 988603
    /\ BitrateOf(0, ideal_selection[0]) = 2284798
    /\ BitrateOf(0, selection[0]) = 988603

\* C3: a hybrid call with a prior selection that reads buffer_level >
\* safe_buffer returns, for every track, whichever of {previous, ideal} has
\* the higher bitrate: never less than the previous call's bitrate.
C3_NoFallWhileSafe ==
    (HybridWithPrior /\ buffer_level > safe_buffer) =>
        \A id \in SetIds(adaptation_sets) :
            LET prev == Get(prior_selections)[id]
                ideal == ideal_selection[id]
                chosen == selection[id]
            IN /\ chosen \in {prev, ideal}
               /\ BitrateOf(id, chosen) >= BitrateOf(id, prev)
               /\ BitrateOf(id, chosen) >= BitrateOf(id, ideal)
               /\ BitrateOf(id, ideal) < BitrateOf(id, prev) => chosen = prev

\* a track kept at its previous bitrate although the ideal one is lower
C3_Witness ==
    /\ HybridWithPrior
    /\ buffer_level > safe_buffer
    /\ \E id \in SetIds(adaptation_sets) :
          /\ BitrateOf(id, ideal_selection[id]) < BitrateOf(id, Get(prior_selections)[id])
          /\ selection[id] = Get(prior_selections)[id]

\* C4: a hybrid call with a prior selection that reads panic_buffer <=
\* buffer_level <= safe_buffer returns exactly the ideal selection of that
\* call, whatever the previous selection was.
C4_NormalBandIsIdeal ==
    (HybridWithPrior /\ panic_buffer <= buffer_level /\ buffer_level <= safe_buffer) =>
        selection = ideal_selection

\* buffer level exactly at panic_buffer, the ideal above the previous choice
C4_Witness ==
    /\ HybridWithPrior
    /\ buffer_level = panic_buffer
    /\ \E id \in SetIds(adaptation_sets) :
          /\ BitrateOf(id, Get(prior_selections)[id]) < BitrateOf(id, ideal_selection[id])
          /\ selection[id] = ideal_selection[id]

\* C5: the bandwidth-based strategy returns the ideal selection it computed
\* (each track's ideal representation for its share of the estimate).
C5_BandwidthBasedReturnsIdeal ==
    (abr_algorithm = "bandwidth-based" /\ Returned) => selection = ideal_selection

\* C6: choose_ideal_selection_bandwidth_based returns the id of a
\* representation of highest bitrate among those with bitrate strictly below
\* bw, or of a lowest-bitrate representation when none is below bw; never None.
C6_IdealSelection ==
    Partitioned =>
        \A id \in DOMAIN ideal_selection :
            LET reps == Range(RepsOf(id))
                fits == {r \in reps : RatLess(RatOfInt(r.bandwidth), bw_share[id])}
            IN /\ ideal_selection[id] \in RepKeys(RepsOf(id))
               /\ LET chosen == RepAt(RepsOf(id), ideal_selection[id])
                  IN IF fits # {}
                     THEN chosen \in fits /\ \A r \in fits : r.bandwidth <= chosen.bandwidth
                     ELSE \A r \in reps : chosen.bandwidth <= r.bandwidth

\* one track whose share equals the bitrate of a representation that is passed
\* over for a lower one, and one track that gets neither its lowest nor its
\* highest bitrate
C6_Witness ==
    /\ Partitioned
    /\ \E id \in DOMAIN ideal_selection :
          \E r \in Range(RepsOf(id)) :
              /\ bw_share[id] = RatOfInt(r.bandwidth)
              /\ BitrateOf(id, ideal_selection[id]) < r.bandwidth
    /\ \E id \in DOMAIN ideal_selection :
          /\ \E b \in BitratesOf(id) : b < BitrateOf(id, ideal_selection[id])
          /\ \E b \in BitratesOf(id) : b > BitrateOf(id, ideal_selection[id])

\* C7: in every buffer-based call, a track with at least two representations
\* gets its minimum bitrate when buffer_level / max_buffer_duration <= 0.10
\* and its maximum bitrate when the fraction is >= 0.90.
C7_BufferClamping ==
    (abr_algorithm = "buffer-based" /\ Returned) =>
        \A id \in SetIds(adaptation_sets) :
            Len(RepsOf(id)) >= 2 =>
                /\ RatLeq(BufferPercentage, RESERVOIR) =>
                      /\ selection[id] \in RepKeys(RepsOf(id))
                      /\ \A b \in BitratesOf(id) : BitrateOf(id, selection[id]) <= b
                /\ RatLeq(UPPER_RESERVOIR, BufferPercentage) =>
                      /\ selection[id] \in RepKeys(RepsOf(id))
                      /\ \A b \in BitratesOf(id) : BitrateOf(id, selection[id]) >= b

\* the seven-step ladder at occupancy 1.5s of 30s selects 391570 while the
\* cached rate map was built from another ladder
C7_Witness ==
    /\ abr_algorithm = "buffer-based" /\ Returned
    /\ buffer_level = 15 /\ buffer_size = 300
    /\ 0 \in SetIds(adaptation_sets)
    /\ Len(RepsOf(0)) = 7
    /\ BitrateOf(0, selection[0]) = 391570
    /\ Len(Get(rate_map)) # 7

InMiddleBand ==
    /\ abr_algorithm = "buffer-based" /\ Returned
    /\ RatLess(RESERVOIR, BufferPercentage)
    /\ RatLess(BufferPercentage, UPPER_RESERVOIR)
AnchorsBelow == {a \in Range(Get(rate_map)) : RatLeq(a.marker, BufferPercentage)}
AnchorsAbove == {a \in Range(Get(rate_map)) : RatLeq(BufferPercentage, a.marker)}

\* C8: in the middle band 0.10 < fraction < 0.90 the bitrate picked for a
\* track is the one the rate map gives the largest anchor <= the fraction.
C8_LargestAnchorBelow ==
    InMiddleBand =>
        \A id \in SetIds(adaptation_sets) :
            \E a \in AnchorsBelow :
                /\ \A other \in AnchorsBelow : RatLeq(other.marker, a.marker)
                /\ next_bitrate[id] = a.bitrate

\* C8 (amended): in the middle band the bitrate picked for a track is the one
\* the cached rate map gives the smallest anchor >= the fraction, and the id
\* returned for the track is that of a representation of the track with
\* exactly that bitrate, or None when the track has none.
C8_SmallestAnchorAbove ==
    InMiddleBand =>
        \A id \in SetIds(adaptation_sets) :
            /\ \E a \in AnchorsAbove :
                  /\ \A other \in AnchorsAbove : RatLeq(a.marker, other.marker)
                  /\ next_bitrate[id] = a.bitrate
            /\ IF next_bitrate[id] \in BitratesOf(id)
               THEN /\ selection[id] \in RepKeys(RepsOf(id))
                    /\ BitrateOf(id, selection[id]) = next_bitrate[id]
               ELSE selection[id] = NoneId

\* a fraction strictly between two anchors of different bitrates, and the
\* bitrate of the upper one picked and selected
C8_Witness ==
    /\ InMiddleBand
    /\ \E id \in SetIds(adaptation_sets) :
          \E lo \in AnchorsBelow, hi \in AnchorsAbove :
              /\ RatLess(lo.marker, BufferPercentage)
              /\ RatLess(BufferPercentage, hi.marker)
              /\ \A a \in Range(Get(rate_map)) :
                    RatLeq(a.marker, lo.marker) \/ RatLeq(hi.marker, a.marker)
              /\ lo.bitrate < hi.bitrate
              /\ next_bitrate[id] = hi.bitrate
              /\ selection[id] # NoneId
              /\ BitrateOf(id, selection[id]) = hi.bitrate

C10_EvenSplitWhenTypeAbsent ==
    (Partitioned /\ (VideoIds = {} \/ AudioIds = {})) =>
        \A id \in DOMAIN bw_share :
            bw_share[id][1] * Len(adaptation_sets) = Budget * bw_share[id][2]

Exceptions == {"KeyError", "AttributeError", "IndexError"}

\* C11: for each of the three strategies and after any sequence of earlier
\* calls (other catalogs, bandwidth 0, buffer level 0 included), a call on a
\* catalog with at least one adaptation set, each with at least one
\* representation, never raises an exception.
C11_NoExceptionOnWellFormed ==
    (Called /\ abr_algorithm \in Strategies /\ WellFormed) => outcome \notin Exceptions

\* C12: in every buffer-based call, for every track with at least one
\* representation, if the bitrate picked from the rate map is the bitrate of
\* no representation of the track, the call fails with InvariantViolation and
\* returns no selection holding a null id.
C12_NoNullId ==
    (abr_algorithm = "buffer-based" /\ Called) =>
        \A id \in DOMAIN next_bitrate :
            (Len(RepsOf(id)) > 0 /\ next_bitrate[id] \notin BitratesOf(id)) =>
                /\ outcome = "InvariantViolation"
                /\ \A t \in DOMAIN selection : selection[t] # NoneId

\* C13: for each of the three strategies, a call on a catalog that holds an
\* adaptation set with no representation ends in ConfigurationError: it raises
\* no other error and returns no selection.
C13_EmptySetGuarded ==
    (Called /\ abr_algorithm \in Strategies /\ ~WellFormed) =>
        outcome = "ConfigurationError"

\* C14: with a strategy value other than the three names every call ends in
\* ConfigurationError and never returns normally; with one of the three names
\* every call runs that strategy only (no trace of the other two is left).
C14_UnknownStrategyIsError ==
    Called =>
        /\ abr_algorithm \notin Strategies => outcome = "ConfigurationError"
        /\ abr_algorithm = "buffer-based" =>
              ideal_selection = EmptyDict /\ bw_share = EmptyDict /\ IsNone(last_selections)
        /\ abr_algorithm = "bandwidth-based" =>
              next_bitrate = EmptyDict /\ IsNone(rate_map) /\ IsNone(last_selections)
        /\ abr_algorithm = "hybrid" => next_bitrate = EmptyDict /\ IsNone(rate_map)

\* C15: for the bandwidth-based and the buffer-based strategy, from any
\* reachable controller state, two consecutive calls made with the same
\* bandwidth estimate, buffer level and catalog end the same way and return
\* identical selections.
C15_Idempotence ==
    (abr_algorithm \in {"bandwidth-based", "buffer-based"} /\ ~IsNone(previous_call)) =>
        <<outcome, selection>> = Get(previous_call)

\* the first buffer-based call of a session, which caches the rate map, and
\* the next one on the same inputs, which reads the cache, return the same
\* selection for a catalog of two ladders, with a null id in it
C15_Witness ==
    /\ abr_algorithm = "buffer-based" /\ Returned
    /\ ~IsNone(previous_call)
    /\ Get(previous_call)[1] = "selection"
    /\ Len(adaptation_sets) >= 2
    /\ \E id \in DOMAIN selection : selection[id] = NoneId
    /\ \E id \in DOMAIN selection : selection[id] # NoneId

\* a step that changes last_selections is a hybrid call that returns
C16_Step ==
    last_selections' # last_selections =>
        /\ abr_algorithm = "hybrid"
        /\ outcome' = "selection"
        /\ last_selections' = Some(selection')

C16_Inv ==
    /\ abr_algorithm # "hybrid" => IsNone(last_selections)
    /\ (abr_algorithm = "hybrid" /\ Returned) =>
          /\ last_selections = Some(selection)
          /\ IsNone(prior_selections) => selection = ideal_selection
          /\ (~IsNone(previous_call) /\ Get(previous_call)[1] = "selection") =>
                prior_selections = Some(Get(previous_call)[2])

\* C16: last_selections is None from construction until the first hybrid call
\* that returns; the first hybrid call returns the ideal selection unchanged
\* whatever the buffer level is; after every hybrid call that returns,
\* last_selections is the selection that call returned, and the next call
\* reads it as its previous selection.
C16_HybridMemory ==
    IsNone(last_selections) /\ []C16_Inv /\ [][C16_Step]_vars

\* a first hybrid call below panic_buffer that returns, and remembers, an
\* ideal selection above the lowest bitrate of a track
C16_Witness ==
    /\ abr_algorithm = "hybrid" /\ Returned
    /\ IsNone(prior_selections)
    /\ buffer_level < panic_buffer
    /\ selection = ideal_selection
    /\ last_selections = Some(selection)
    /\ \E id \in DOMAIN selection :
          \E b \in BitratesOf(id) : b < BitrateOf(id, selection[id])

\* a second hybrid call on the same inputs whose previous selection is the
\* first call's result
C16_WitnessChain ==
    /\ abr_algorithm = "hybrid" /\ Returned
    /\ ~IsNone(previous_call)
    /\ prior_selections = Some(Get(previous_call)[2])

\* a step that changes rate_map is a buffer-based call that finds none and
\* caches the map of the ladder of the first adaptation set
C17_Step ==
    rate_map' # rate_map =>
        /\ abr_algorithm = "buffer-based"
        /\ IsNone(rate_map)
        /\ outcome' # "idle"
        /\ rate_map' = Some(get_rate_map(SortedBitrates(adaptation_sets[1])))

\* in the middle band every track evaluated reads the cached map
C17_Inv ==
    /\ abr_algorithm # "buffer-based" => IsNone(rate_map)
    /\ (abr_algorithm = "buffer-based" /\ Returned) => ~IsNone(rate_map)
    /\ InMiddleBand =>
          \A id \in DOMAIN next_bitrate :
              next_bitrate[id] =
                  WalkMarkers(Reverse(Get(rate_map)), BufferPercentage, NoneId)

\* C17: rate_map is None from construction until the first buffer-based
\* evaluation of a track, which sets it to the rate map of the ladder of the
\* first adaptation set evaluated; from then on no call changes it, whatever
\* catalogs, ladders and buffer levels later calls see, and every later track
\* evaluation reads that same map.
C17_RateMapBuiltOnce ==
    IsNone(rate_map) /\ []C17_Inv /\ [][C17_Step]_vars

\* a buffer-based call in the middle band on a catalog whose first ladder is
\* not the one the cached map was built from
C17_Witness ==
    /\ InMiddleBand
    /\ Len(adaptation_sets[1].representations) > 0
    /\ Get(rate_map) # get_rate_map(SortedBitrates(adaptation_sets[1]))
    /\ \E id \in DOMAIN selection : selection[id] # NoneId

\* C18: for a ladder of n >= 2 bitrates sorted ascending, get_rate_map returns
\* exactly n anchors in increasing order of fraction, the i-th (i = 0..n-1) at
\* 0.10 + i * 0.80/(n-1) and mapped to the i-th bitrate, so that the lowest
\* bitrate sits at 10%, the highest at 90%, and the bitrate is non-decreasing
\* in the anchor fraction.  (Single-track sessions: the map in rate_map is the
\* one get_rate_map returned for the sorted ladder of the track.)
C18_RateMapConstruction ==
    ~IsNone(rate_map) =>
        LET bitrates == SortedBitrates(adaptation_sets[1])
            n == Len(bitrates)
            map == Get(rate_map)
        IN /\ map = get_rate_map(bitrates)
           /\ n >= 2 =>
                 /\ Len(map) = n
                 /\ \A i \in 0..(n - 1) :
                       /\ map[i + 1].marker = Rat(n - 1 + 8 * i, 10 * (n - 1))
                       /\ map[i + 1].bitrate = bitrates[i + 1]
                 /\ map[1].marker = RESERVOIR /\ map[n].marker = UPPER_RESERVOIR
                 /\ \A i, j \in 1..n :
                       i < j => /\ RatLess(map[i].marker, map[j].marker)
                                /\ map[i].bitrate <= map[j].bitrate

\* the seven-step ladder: the fourth anchor is 1489543 at one half
C18_Witness ==
    /\ ~IsNone(rate_map)
    /\ Len(Get(rate_map)) = 7
    /\ Get(rate_map)[4] = [marker |-> <<1, 2>>, bitrate |-> 1489543]

\* a ladder of four bitrates given out of order and with a repeat
C18_WitnessUnsorted ==
    /\ ~IsNone(rate_map)
    /\ Len(Get(rate_map)) = 4
    /\ \E i \in 1..3 : adaptation_sets[1].representations[i].bandwidth
                          > adaptation_sets[1].representations[i + 1].bandwidth
    /\ Get(rate_map)[2].bitrate = Get(rate_map)[3].bitrate

\* what a step that makes a call (the record is filled in) may change
C19_Step ==
    outcome' # "idle" =>
        /\ adaptation_sets' = adaptation_sets
        /\ min_bitrate_representations' = min_bitrate_representations
        /\ abr_algorithm = "bandwidth-based" => controller' = controller
        /\ abr_algorithm = "buffer-based" => last_selections' = last_selections
        /\ abr_algorithm = "hybrid" => rate_map' = rate_map
        /\ abr_algorithm \notin Strategies => controller' = controller

\* C19: no call modifies the input catalog; the bandwidth-based strategy
\* changes no controller state; the buffer-based strategy changes at most
\* rate_map and never last_selections; the hybrid strategy changes only
\* last_selections and never rate_map; _min_bitrate_representations stays
\* empty for the whole session.
C19_Frame ==
    [](min_bitrate_representations = EmptyDict) /\ [][C19_Step]_vars

\* a hybrid call that replaced the remembered selection and nothing else
C19_Witness ==
    /\ abr_algorithm = "hybrid" /\ Returned
    /\ ~IsNone(prior_selections) /\ last_selections # prior_selections
    /\ IsNone(rate_map)
    /\ min_bitrate_representations = EmptyDict

\* a buffer-based call that cached the rate map and nothing else
C19_WitnessBufferBased ==
    /\ abr_algorithm = "buffer-based" /\ Returned
    /\ ~IsNone(rate_map) /\ IsNone(last_selections)
    /\ IsNone(previous_call)

\* the positions of the switches to BUFFERING among the callbacks received
RECURSIVE BufferingPositions(_)
BufferingPositions(log) ==
    IF log = << >> THEN << >>
    ELSE LET e == Head(log)
         IN IF e[1] = "on_state_change" /\ e[4] = "BUFFERING"
            THEN <<e[2]>> \o BufferingPositions(Tail(log))
            ELSE BufferingPositions(Tail(log))

\* a callback leaves the list as it is or appends one position to it
C20_Step ==
    \/ get_states' = get_states
    \/ /\ Len(get_states') = Len(get_states) + 1
       /\ SubSeq(get_states', 1, Len(get_states)) = get_states
       /\ LET e == callbacks'[Len(callbacks')]
          IN e[1] = "on_state_change" /\ e[4] = "BUFFERING" /\ e[2] = get_states'[Len(get_states')]

\* C20: after any sequence of listener callbacks on one EventLogger,
\* get_states() is the list, in call order and with repeats kept, of the
\* positions of the on_state_change calls whose new_state was BUFFERING; every
\* other callback leaves the list unchanged, and the list only grows by
\* appending.
C20_StallRecord ==
    [](get_states = BufferingPositions(callbacks)) /\ [][C20_Step]_vars

\* two stalls at the same position with another switch and a download between
\* them: a switch out of BUFFERING is not recorded
C20_Witness ==
    /\ Len(callbacks) = 3
    /\ callbacks[1][1] = "on_state_change" /\ callbacks[1][4] = "BUFFERING"
    /\ callbacks[2][1] = "on_state_change" /\ callbacks[2][3] = "BUFFERING"
    /\ callbacks[2][4] = "READY"
    /\ callbacks[3][1] = "on_state_change" /\ callbacks[3][4] = "BUFFERING"
    /\ get_states = <<7, 7>>

====
